---- MODULE Spec2Model ----
(***************************************************************************)
(* A model of the recognition session of vosk-api (KaldiRecognizer), of    *)
(* the shared Model and SpkModel and their reference counting, and of the  *)
(* grammar constructor.                                                    *)
(*                                                                         *)
(* Six specifications:                                                     *)
(*   Spec      one session, from its construction on: AcceptWaveform,      *)
(*             PartialResult, Result, FinalResult, GetMetadata.            *)
(*   SpecUtt   the streaming session and the same calls, with or without   *)
(*             a rescoring graph, uttConfidence starting from numbers.     *)
(*   SpecRef   one Model, one SpkModel, their owners and the sessions      *)
(*             opened on them.                                             *)
(*   SpecRace  Model::Ref and Model::Unref run by several threads, one     *)
(*             memory access per step.                                     *)
(*   SpecGrm   the grammar constructor, from the grammar string to the     *)
(*             grammar graph.                                              *)
(*   SpecSpk   GetSpkVector, from the speaker frames and the non-silence   *)
(*             frames to its return.                                       *)
(*                                                                         *)
(* The Kaldi objects the session drives are modelled by what the session   *)
(* observes of them.  The feature pipeline is the sequence of chunks       *)
(* pushed into it; the decoder is an offset into that sequence and the     *)
(* number of chunks it has consumed.  Frames decoded, the best path and    *)
(* the trailing silence are functions of the two.                          *)
(*                                                                         *)
(* Strings are sequences of integers: a word id stands for the word's      *)
(* spelling and 0 for a blank.                                             *)
(***************************************************************************)
EXTENDS Integers, Sequences, FiniteSets, TLC

VARIABLES
    \* ---- KaldiRecognizer fields
    state_,               \* RECOGNIZER_INITIALIZED / RUNNING / ENDPOINT / FINALIZED
    online_,              \* streaming (TRUE) or batch (FALSE) mode
    lm_fst_,              \* TRUE when InitRescoring mapped a rescoring graph
    frame_offset_,        \* frames decoded since the last pipeline reset
    samples_processed_,   \* samples accepted in the current round
    samples_round_start_, \* samples accepted before the current round
    feature_pipeline_,    \* [id, chunks, input_finished]
    decoder_,             \* [id, offset, upto, finalized]
    silence_weighting_,   \* identity of the OnlineSilenceWeighting helper
    silence_pos,          \* utterance boundary markers
    metadata_,            \* [isnull, words, text]
    last_result_,         \* the stored JSON string
    uttConfidence,        \* the confidence accumulator, a float
    \* ---- the call in progress and the calls made
    pc,                   \* "idle", or "pushing": AcceptWaveform is past its CleanUp
    wdata,                \* the chunk of the AcceptWaveform in progress
    op,                   \* the last call that returned
    ret,                  \* what the last AcceptWaveform returned
    accepted,             \* number of AcceptWaveform calls made
    boundaries,           \* number of times the decoder's endpoint report rose
    calls_,               \* what the call in progress or last returned did, in order
    \* ---- Model and the sessions on it (SpecRef)
    model_,               \* "none", "alive", "destroyed"
    graph_,               \* which decoding graphs the Model loaded
    configured_,          \* what Model::Configure found and read
    ref_cnt_,             \* Model::ref_cnt_
    owner_,               \* TRUE while the caller of vosk_model_new holds it
    recognizers,          \* session slot -> "none" or its lifecycle state
    destroyed_,           \* number of times ~Model ran
    leaked_,              \* constructions that threw after Ref()
    feature_info_,        \* Model::feature_info_->ivector_extractor_info
    sessions_,            \* session slot -> [kind, graph] of its constructor
    spk_model_,           \* "none", "alive", "destroyed", "freed"
    spk_ref_cnt_,         \* SpkModel::ref_cnt_
    spk_owner_,           \* TRUE while the caller of vosk_spk_model_new holds it
    \* ---- threads inside Model::Ref / Model::Unref (SpecRace)
    tpc,                  \* thread -> its position
    treg,                 \* thread -> the value of ref_cnt_ it has read
    \* ---- the grammar constructor (SpecGrm)
    grammar_,             \* the grammar string, a sequence of characters
    g_fst_,               \* [start, final, arcs], arcs: state -> sequence of arcs
    warnings_,            \* the tokens KALDI_WARN reported, in order
    gpc,                  \* "none", "new" (before the word loop), "compiled"
    \* ---- GetSpkVector (SpecSpk)
    spk_feature_,         \* spk_feature_->NumFramesReady()
    silence_,             \* [active, ready, nonsilence]: the silence weighting helper
    xvector_              \* [ret, rows]: what GetSpkVector returned and computed on

sessVars == <<state_, online_, lm_fst_, frame_offset_, samples_processed_,
              samples_round_start_, feature_pipeline_, decoder_,
              silence_weighting_, silence_pos, metadata_, uttConfidence, last_result_,
              uttConfidence, pc, wdata, op, ret, accepted, boundaries, calls_>>

refVars == <<model_, graph_, configured_, ref_cnt_, owner_, recognizers, destroyed_, leaked_,
             feature_info_, sessions_, spk_model_, spk_ref_cnt_, spk_owner_>>

spkVars == <<spk_model_, spk_ref_cnt_, spk_owner_>>

raceVars == <<tpc, treg>>

grmVars == <<grammar_, g_fst_, warnings_, gpc>>

xvecVars == <<spk_feature_, silence_, xvector_>>

\* what a call on the session leaves alone, and what a call on the Model does
outsideSession == <<refVars, raceVars, grmVars, xvecVars>>
outsideModel == <<sessVars, raceVars, grmVars, xvecVars>>

vars == <<sessVars, refVars, raceVars, grmVars, xvecVars>>

----------------------------------------------------------------------------
(* Bounds of the model *)

\* AcceptWaveform calls per behaviour
MaxChunks == 3

\* session slots on the Model
MaxSessions == 2

\* session constructions that may throw per behaviour
MaxFailed == 2

\* threads that open and close a session on the shared Model
MaxThreads == 2

\* characters in a grammar string
MaxGrammarLen == 3

\* words in a sequence offered to the grammar graph
MaxWords == 2

\* speaker feature frames ready when GetSpkVector is called
MaxSpkFrames == 33

----------------------------------------------------------------------------
(* Program constants *)

\* CleanUp drops the pipeline once frame_offset_ exceeds this
ResetCeiling == 20000

\* feature frames per decoded frame
SubsamplingFactor == 3

\* endpoint rule: trailing silence, in decoded frames, after some speech
MinTrailingSilence == 17

\* endpoint rule: trailing silence, in decoded frames, with no speech at all
MinSilenceOnly == 167

\* #define MIN_SPK_FEATS 30
MIN_SPK_FEATS == 30

----------------------------------------------------------------------------
(* Inputs *)

\* The chunks a caller feeds: word 0 is silence, another word is speech that
\* decodes to that word; frames is the number of feature frames the chunk
\* yields, dim its number of samples.
Chunks ==
    { [word |-> 1, frames |-> 36000, dim |-> 5760000],
      [word |-> 2, frames |-> 27000, dim |-> 4320000],
      [word |-> 0, frames |-> 30,    dim |-> 4800],
      [word |-> 0, frames |-> 600,   dim |-> 96000] }

NoChunk == [word |-> 0, frames |-> 0, dim |-> 0]

States == {"INITIALIZED", "RUNNING", "ENDPOINT", "FINALIZED"}

----------------------------------------------------------------------------
(* Strings and JSON *)

RECURSIVE JoinWords(_)
\* text << " " between words, text << word
JoinWords(ws) ==
    IF ws = <<>> THEN <<>>
    ELSE IF Len(ws) = 1 THEN <<ws[1]>>
    ELSE <<ws[1], 0>> \o JoinWords(Tail(ws))

EmptyString == [key |-> "", text |-> <<>>, words |-> <<>>]

\* {"text": "<t>"}
TextJSON(t) == [key |-> "text", text |-> t, words |-> <<>>]

\* {"partial": "<t>"}
PartialJSON(t) == [key |-> "partial", text |-> t, words |-> <<>>]

\* metadata_.dump()
MetadataJSON(m) == [key |-> "metadata", text |-> m.text, words |-> m.words]

----------------------------------------------------------------------------
(* The feature pipeline and the decoder, as the session observes them *)

NewPipeline(id) == [id |-> id, chunks |-> <<>>, input_finished |-> FALSE]

NewDecoder(id) == [id |-> id, offset |-> 0, upto |-> 0, finalized |-> FALSE]

RECURSIVE SumFrames(_, _)
\* feature frames of the first i chunks
SumFrames(chunks, i) ==
    IF i = 0 THEN 0 ELSE chunks[i].frames + SumFrames(chunks, i - 1)

\* feature_pipeline_->NumFramesReady()
NumFramesReady(fp) == SumFrames(fp.chunks, Len(fp.chunks))

\* decodable frames of the first i chunks
FramesUpTo(fp, i) == SumFrames(fp.chunks, i) \div SubsamplingFactor

\* feature_pipeline_->AcceptWaveform(sample_frequency_, wdata)
PushWaveform(fp, w) == [fp EXCEPT !.chunks = Append(@, w)]

\* feature_pipeline_->InputFinished()
InputFinished(fp) == [fp EXCEPT !.input_finished = TRUE]

\* decoder_->NumFramesDecoded()
NumFramesDecoded(dec, fp) ==
    IF FramesUpTo(fp, dec.upto) > dec.offset
    THEN FramesUpTo(fp, dec.upto) - dec.offset
    ELSE 0

\* decoder_->AdvanceDecoding(): consume every frame the pipeline has ready
AdvanceDecoding(dec, fp) == [dec EXCEPT !.upto = Len(fp.chunks)]

\* decoder_->FinalizeDecoding()
FinalizeDecoding(dec) == [dec EXCEPT !.finalized = TRUE]

\* decoder_->InitDecoding(frame_offset_): restart on the same pipeline
InitDecoding(dec, fo) == [dec EXCEPT !.offset = fo, !.finalized = FALSE]

\* the chunks of the decoder's current utterance
UttChunks(dec, fp) ==
    { j \in 1..dec.upto : FramesUpTo(fp, j - 1) >= dec.offset }

RECURSIVE WordsFrom(_, _, _)
\* the words of chunks j..upto, in order
WordsFrom(fp, j, upto) ==
    IF j > upto THEN <<>>
    ELSE (IF fp.chunks[j].word = 0 THEN <<>> ELSE <<fp.chunks[j].word>>)
         \o WordsFrom(fp, j + 1, upto)

\* index of the first chunk of the decoder's utterance
UttStart(dec, fp) ==
    IF UttChunks(dec, fp) = {} THEN dec.upto + 1
    ELSE CHOOSE j \in UttChunks(dec, fp) : \A k \in UttChunks(dec, fp) : j <= k

\* word ids on the decoder's best path
BestPathWords(dec, fp) == WordsFrom(fp, UttStart(dec, fp), dec.upto)

RECURSIVE SilenceBack(_, _, _)
\* decoded frames of the silence chunks that end the range lo..j
SilenceBack(fp, lo, j) ==
    IF j < lo \/ fp.chunks[j].word # 0 THEN 0
    ELSE (FramesUpTo(fp, j) - FramesUpTo(fp, j - 1)) + SilenceBack(fp, lo, j - 1)

TrailingSilence(dec, fp) == SilenceBack(fp, UttStart(dec, fp), dec.upto)

\* decoder_->EndpointDetected(model_->endpoint_config_): Kaldi's trailing
\* silence rules, a function of what the decoder has decoded of its current
\* utterance.  It holds for as long as the silence lasts, and with nothing
\* decoded (batch mode before FinalResult) it is FALSE.
EndpointDetected(dec, fp) ==
    \/ BestPathWords(dec, fp) # <<>> /\ TrailingSilence(dec, fp) >= MinTrailingSilence
    \/ TrailingSilence(dec, fp) >= MinSilenceOnly

----------------------------------------------------------------------------
(* KaldiRecognizer: construction *)

----------------------------------------------------------------------------
(* Model: what it loads, and what a constructor takes from it *)

\* What Model::ReadDataFiles finds: HCLG.fst absent, readable or unreadable,
\* whether HCLr.fst and Gr.fst can be read, and whether a symbol table can be
\* had from the graph or from words.txt; and what Model::Configure finds:
\* whether there is a file at config_file_path.
ModelFiles ==
    [hclg : {"absent", "readable", "corrupt"}, hcl : BOOLEAN, g : BOOLEAN,
     syms : BOOLEAN, config : BOOLEAN]

\* no Model::Configure has run
NotConfigured == [stat_ok |-> FALSE, read |-> <<>>]

\* fault: Configure reads the default file whatever stat() says
Configure_Default(stat_ok) ==
    [stat_ok |-> stat_ok, read |-> <<"acmodel_path/conf/online.conf">>]

\* Model::Configure: stat_ok is stat(config_file_path) == 0, read the files
\* handed to po.ReadConfigFile, in order
Configure(stat_ok) ==
    [stat_ok |-> stat_ok,
     read |-> IF stat_ok THEN <<"config_file_path">>
              ELSE <<"acmodel_path/conf/online.conf">>]

\* The graphs ReadDataFiles leaves: HCLG.fst when that file exists, else
\* whatever of HCLr.fst and Gr.fst could be read (fst::StdFst::Read returns
\* NULL for a file it cannot read, and nothing tests the result).
GraphsRead(f) ==
    IF f.hclg # "absent"
    THEN [hclg |-> TRUE, hcl |-> FALSE, g |-> FALSE]
    ELSE [hclg |-> FALSE, hcl |-> f.hcl, g |-> f.g]

\* ReadDataFiles returns: ReadFstKaldiGeneric raises KALDI_ERR on a file it
\* cannot read, and so does the load of the symbol table
LoadSucceeds(f) == f.hclg # "corrupt" /\ f.syms

LoadedGraphs == { GraphsRead(f) : f \in { x \in ModelFiles : LoadSucceeds(x) } }

NoGraphs == [hclg |-> FALSE, hcl |-> FALSE, g |-> FALSE]

\* ivector_extractor_info as the configuration files can set it
IvectorConfigs ==
    { [use_most_recent_ivector |-> u, greedy_ivector_extractor |-> FALSE] :
          u \in BOOLEAN }

\* if (online_) { use_most_recent_ivector = true; greedy_ivector_extractor = true; }
FeatureInfoAfterOpen(info, online) ==
    IF online
    THEN [use_most_recent_ivector |-> TRUE, greedy_ivector_extractor |-> TRUE]
    ELSE info

\* fault: the test for the grammar graph is left out
PlainGraphMissing_IgnoresG(gph) == ~gph.hclg /\ ~gph.hcl

\* KaldiRecognizer(Model*, SpkModel*, float, bool) reaches KALDI_ERR
PlainGraphMissing(gph) == ~gph.hclg /\ ~(gph.hcl /\ gph.g)

\* fault: a precompiled graph is enough for the grammar constructor
GrammarGraphMissing_NoGraphAtAll(gph) == ~gph.hcl /\ ~gph.hclg

\* KaldiRecognizer(Model*, float, char const*, bool) reaches KALDI_ERR
GrammarGraphMissing(gph) == ~gph.hcl

\* the constructors: without a speaker model, with one, with a grammar
SessionKinds == {"plain", "spk", "grammar"}

GraphMissing(kind, gph) ==
    IF kind = "grammar" THEN GrammarGraphMissing(gph) ELSE PlainGraphMissing(gph)

\* the graph handed to SingleUtteranceNnet3Decoder:
\* model_->hclg_fst_ ? *model_->hclg_fst_ : *decode_fst_
DecodeGraph(kind, gph) ==
    IF gph.hclg THEN "HCLG"
    ELSE IF kind = "grammar" THEN "HCLr o grammar" ELSE "HCLr o Gr"

NoSession == [kind |-> "none", graph |-> "none"]

\* thread 0 owns the Model, the others each run one session
Threads == 0..MaxThreads

\* no thread is inside Ref or Unref
NoThreads ==
    /\ tpc = [t \in Threads |-> "none"]
    /\ treg = [t \in Threads |-> 0]

\* g_fst_ = NULL
NoFst == [start |-> -1, final |-> {}, arcs |-> <<>>]

\* no grammar constructor is running
NoGrammar ==
    /\ grammar_ = <<>>
    /\ g_fst_ = NoFst
    /\ warnings_ = <<>>
    /\ gpc = "none"

\* no GetSpkVector is running or has run
NoSpkVector ==
    /\ spk_feature_ = 0
    /\ silence_ = [active |-> FALSE, ready |-> FALSE, nonsilence |-> {}]
    /\ xvector_ = [ret |-> "none", rows |-> 0]

NullMetadata == [isnull |-> TRUE, words |-> <<>>, text |-> <<>>]

\* a float: a number of hundredths, or what a division by zero leaves
Float(n) == [kind |-> "finite", val |-> n]

\* uttConfidence += conf[i]
FloatAdd(x, n) == IF x.kind = "finite" THEN Float(x.val + n) ELSE x

\* uttConfidence /= size
FloatDiv(x, n) ==
    IF x.kind # "finite" THEN x
    ELSE IF n > 0 THEN Float(x.val \div n)
    ELSE [kind |-> IF x.val = 0 THEN "nan" ELSE "inf", val |-> 0]

\* no constructor and no InitState assigns uttConfidence: the first utterance
\* adds to whatever the object's memory holds
UninitializedFloat == {Float(0), Float(25)}

\* the state the constructor leaves: InitState() on fresh helpers, on a Model
\* without rescoring graph.  uttConfidence, which nothing initializes, holds a
\* NaN here, which no utterance changes; SpecUtt starts it from numbers.
Init ==
    /\ state_ = "INITIALIZED"
    /\ online_ \in BOOLEAN
    /\ lm_fst_ = FALSE
    /\ frame_offset_ = 0
    /\ samples_processed_ = 0
    /\ samples_round_start_ = 0
    /\ feature_pipeline_ = NewPipeline(1)
    /\ decoder_ = NewDecoder(1)
    /\ silence_weighting_ = 1
    /\ silence_pos = <<>>
    /\ metadata_ = NullMetadata
    /\ last_result_ = EmptyString
    /\ uttConfidence = [kind |-> "nan", val |-> 0]
    /\ pc = "idle"
    /\ wdata = NoChunk
    /\ op = "new"
    /\ ret = FALSE
    /\ accepted = 0
    /\ boundaries = 0
    /\ calls_ = <<>>
    /\ model_ = "alive"
    /\ graph_ = [hclg |-> TRUE, hcl |-> FALSE, g |-> FALSE]
    /\ configured_ = Configure(FALSE)
    /\ ref_cnt_ = 2
    /\ owner_ = TRUE
    /\ recognizers = [i \in 1..MaxSessions |-> IF i = 1 THEN "INITIALIZED" ELSE "none"]
    /\ destroyed_ = 0
    /\ leaked_ = 0
    /\ feature_info_ = FeatureInfoAfterOpen(
           [use_most_recent_ivector |-> TRUE, greedy_ivector_extractor |-> FALSE],
           online_)
    /\ sessions_ = [i \in 1..MaxSessions |->
           IF i = 1 THEN [kind |-> "plain", graph |-> "HCLG"] ELSE NoSession]
    /\ spk_model_ = "none"
    /\ spk_ref_cnt_ = 0
    /\ spk_owner_ = FALSE
    /\ NoThreads
    /\ NoGrammar
    /\ NoSpkVector

----------------------------------------------------------------------------
(* KaldiRecognizer::CleanUp *)

\* fault: CleanUp leaves frame_offset_ where it was
AdvancedFrameOffset_Kept(fo, dec, fp) == fo

\* frame_offset_ += decoder_->NumFramesDecoded()
AdvancedFrameOffset(fo, dec, fp) == fo + NumFramesDecoded(dec, fp)

\* fault: CleanUp has no frame ceiling
DropsPipeline_FinalizedOnly(st, fo) == st = "FINALIZED"

\* fault: CleanUp drops the pipeline every time
DropsPipeline_Always(st, fo) == TRUE

\* the condition under which CleanUp drops the pipeline and the decoder
\* (decoder_ is never NULL once the constructor has returned)
DropsPipeline(st, fo) == st = "FINALIZED" \/ fo > ResetCeiling

\* fault: the reset forgets the samples of the rounds before the one it ends
RoundStartAfterReset_Restarts(start, processed) == processed

\* fault: the reset forgets the samples of the round it ends
RoundStartAfterReset_Kept(start, processed) == start

\* samples_round_start_ += samples_processed_
RoundStartAfterReset(start, processed) == start + processed

\* what a CleanUp does to the decoder it was called with: the cheap path ends
\* in decoder_->InitDecoding(frame_offset_), the reset in a new decoder
CleanUpCalls(st, fo) ==
    <<"CleanUp">> \o (IF DropsPipeline(st, fo) THEN <<>> ELSE <<"InitDecoding">>)

CleanUp ==
    LET fo == AdvancedFrameOffset(frame_offset_, decoder_, feature_pipeline_) IN
    /\ silence_weighting_' = silence_weighting_ + 1
    /\ IF DropsPipeline(state_, fo)
       THEN /\ samples_round_start_' =
                   RoundStartAfterReset(samples_round_start_, samples_processed_)
            /\ samples_processed_' = 0
            /\ frame_offset_' = 0
            /\ feature_pipeline_' = NewPipeline(feature_pipeline_.id + 1)
            /\ decoder_' = NewDecoder(decoder_.id + 1)
       ELSE /\ frame_offset_' = fo
            /\ decoder_' = InitDecoding(decoder_, fo)
            /\ UNCHANGED <<samples_round_start_, samples_processed_, feature_pipeline_>>

----------------------------------------------------------------------------
(* KaldiRecognizer::AcceptWaveform *)

\* fault: AcceptWaveform goes through CleanUp in RUNNING too
CleansUpFirst_AlsoRunning(st) == st # "INITIALIZED"

\* the states from which AcceptWaveform goes through CleanUp first
CleansUpFirst(st) == ~(st = "RUNNING" \/ st = "INITIALIZED")

\* AcceptWaveform, from its entry to state_ = RECOGNIZER_RUNNING
AcceptWaveform_CleanUp(w) ==
    /\ pc = "idle"
    /\ accepted < MaxChunks
    /\ IF CleansUpFirst(state_)
       THEN CleanUp
       ELSE UNCHANGED <<silence_weighting_, samples_round_start_, samples_processed_,
                        frame_offset_, feature_pipeline_, decoder_>>
    /\ state_' = "RUNNING"
    /\ pc' = "pushing"
    /\ wdata' = w
    /\ accepted' = accepted + 1
    /\ calls_' = IF CleansUpFirst(state_)
                 THEN CleanUpCalls(state_, AdvancedFrameOffset(frame_offset_, decoder_,
                                                               feature_pipeline_))
                 ELSE <<>>
    /\ UNCHANGED <<online_, lm_fst_, silence_pos, metadata_, uttConfidence, last_result_, op, ret, boundaries>>
    /\ UNCHANGED outsideSession

\* fault: the chunk is counted before the endpoint test
SamplesAfterChunk_Always(processed, dim, endpoint) == processed + dim

\* samples_processed_ += wdata.Dim(), skipped by the early return
SamplesAfterChunk(processed, dim, endpoint) ==
    IF endpoint THEN processed ELSE processed + dim

\* silence_pos.append(feature_pipeline_->NumFramesReady()) on an endpoint
SilencePosAfterChunk(pos, fp, endpoint) ==
    IF endpoint THEN Append(pos, NumFramesReady(fp)) ELSE pos

\* what AcceptWaveform does after state_ = RECOGNIZER_RUNNING, in order
AcceptCalls(online) ==
    <<"AcceptWaveform">>
        \o (IF online THEN <<"UpdateSilenceWeights", "AdvanceDecoding">> ELSE <<>>)
        \o <<"EndpointDetected">>

\* AcceptWaveform, from the push into the feature pipeline to its return
AcceptWaveform_Push ==
    /\ pc = "pushing"
    /\ LET fp == PushWaveform(feature_pipeline_, wdata)
           dec == IF online_ THEN AdvanceDecoding(decoder_, fp) ELSE decoder_
           endpoint == EndpointDetected(dec, fp)
           was == EndpointDetected(decoder_, feature_pipeline_)
       IN /\ feature_pipeline_' = fp
          /\ decoder_' = dec
          /\ silence_pos' = SilencePosAfterChunk(silence_pos, fp, endpoint)
          /\ samples_processed_' = SamplesAfterChunk(samples_processed_, wdata.dim, endpoint)
          /\ ret' = endpoint
          /\ boundaries' = IF endpoint /\ ~was THEN boundaries + 1 ELSE boundaries
    /\ pc' = "idle"
    /\ wdata' = NoChunk
    /\ op' = "AcceptWaveform"
    /\ calls_' = calls_ \o AcceptCalls(online_)
    /\ UNCHANGED <<state_, online_, lm_fst_, frame_offset_, samples_round_start_,
                   silence_weighting_, metadata_, uttConfidence, last_result_, accepted>>
    /\ UNCHANGED outsideSession

----------------------------------------------------------------------------
(* KaldiRecognizer::ComputeTimestamp and GetResult *)

RECURSIVE WordEntries(_, _, _, _, _)
\* one entry per word of chunks j..upto: the word, and the two terms of its
\* start and end time, samples_round_start_ and frame_offset_ + times[i]
WordEntries(fp, dec, j, start, fo) ==
    IF j > dec.upto THEN <<>>
    ELSE (IF fp.chunks[j].word = 0 THEN <<>>
          ELSE << [word |-> fp.chunks[j].word,
                   round_start |-> start,
                   from |-> fo + (FramesUpTo(fp, j - 1) - dec.offset),
                   to |-> fo + (FramesUpTo(fp, j) - dec.offset)] >>)
         \o WordEntries(fp, dec, j + 1, start, fo)

\* metadata_["text"]: the utterance text, after a blank when there is text already
AppendText(old, new) == IF old = <<>> THEN new ELSE old \o <<0>> \o new

\* the word the first pass ranked second where it ranked w first
Alternative(w) == IF w = 1 THEN 2 ELSE 1

\* decoder_->GetLattice(true, &clat): the set of paths of the compact lattice,
\* the decoder's best path and, when it has words, a second reading of them
\* at a higher cost.  A lattice with no state is the empty set.
GetLattice(dec, fp) ==
    LET ws == BestPathWords(dec, fp)
    IN  {[cost |-> 0, words |-> ws]}
        \cup (IF ws = <<>> THEN {}
              ELSE {[cost |-> 1, words |-> [i \in 1..Len(ws) |-> Alternative(ws[i])]]})

\* the composition with lm_fst_ and const_arpa_: the rescoring graph ranks
\* word 1 low, and adds to the cost of a path for each time the path has it;
\* compose_ok is FALSE when no path of the lattice is a path of the graph
Rescore(lat, compose_ok) ==
    IF compose_ok
    THEN {[cost |-> p.cost + 2 * Cardinality({i \in 1..Len(p.words) : p.words[i] = 1}),
           words |-> p.words] : p \in lat}
    ELSE {}

\* fault: the second pass runs whether or not a rescoring graph is there
Rescored_Always(lm, lat, compose_ok) == Rescore(lat, compose_ok)

\* clat after if (model_->std_lm_fst_) { ... }
Rescored(lm, lat, compose_ok) == IF lm THEN Rescore(lat, compose_ok) ELSE lat

\* fst::ShortestPath(clat, ...) and GetLinearSymbolSequence: the words of the
\* path of least cost
ShortestPath(lat) ==
    IF lat = {} THEN <<>>
    ELSE (CHOOSE p \in lat : \A q \in lat : p.cost <= q.cost).words

\* fault: a lattice never counts as empty
NumStates_OneMore(lat) == Cardinality(lat) + 1

\* clat.NumStates(): zero exactly when the lattice has no path
NumStates(lat) == Cardinality(lat)

\* fault: a failed extraction keeps the metadata gathered so far
ComputeTimestamp_Keeps(meta, clat, dec, fp, start, fo, alloc_ok) ==
    IF alloc_ok
    THEN [isnull |-> FALSE,
          words |-> meta.words,
          text |-> AppendText(meta.text, JoinWords(ShortestPath(clat)))]
    ELSE meta

\* ComputeTimestamp(clat): the one-best words of clat at the times of the
\* decoder's alignment; alloc_ok is FALSE when std::bad_alloc is thrown
ComputeTimestamp(meta, clat, dec, fp, start, fo, alloc_ok) ==
    LET es == WordEntries(fp, dec, UttStart(dec, fp), start, fo)
        ws == ShortestPath(clat)
    IN  IF alloc_ok
        THEN [isnull |-> FALSE,
              words |-> meta.words
                        \o [i \in 1..Len(ws) |-> [es[i] EXCEPT !.word = ws[i]]],
              text |-> AppendText(meta.text, JoinWords(ws))]
        ELSE NullMetadata

\* the word id the symbol table spells "<unk>"
Unk == 2

\* conf[i] of the one-best path, in hundredths
Conf(w) == IF w = Unk THEN 40 ELSE 80

RECURSIVE SumConf(_, _)
\* the confidences the word loop adds after its first k words
SumConf(ws, k) ==
    IF k = 0 THEN 0
    ELSE SumConf(ws, k - 1) + (IF ws[k] # Unk THEN Conf(ws[k]) ELSE 0)

\* uttConfidence after ComputeTimestamp on the words ws: the sum of all but
\* "<unk>", over the number of words; a std::bad_alloc is thrown in the word
\* loop after k words, or past the division when k is greater than their
\* number
Confidence(utt, ws, alloc_ok, k) ==
    IF alloc_ok \/ k > Len(ws)
    THEN FloatDiv(FloatAdd(utt, SumConf(ws, Len(ws))), Len(ws))
    ELSE FloatAdd(utt, SumConf(ws, k))

\* fault: GetResult reads the lattice whatever was decoded
NothingDecoded_Never(dec, fp) == FALSE

\* GetResult returns the empty text before it reads the lattice
NothingDecoded(dec, fp) == NumFramesDecoded(dec, fp) = 0

\* GetResult() on the finalized decoder dec, called by Result or FinalResult
\* after it did what did lists; KALDI_WARN is the "Empty lattice." warning,
\* std::bad_alloc the exception ComputeTimestamp catches
GetResult(dec, fp, did) ==
    IF NothingDecoded(dec, fp)
    THEN /\ last_result_' = TextJSON(<<>>)
         /\ calls_' = did
         /\ UNCHANGED <<metadata_, uttConfidence>>
    ELSE \E compose_ok \in BOOLEAN :
          LET clat == Rescored(lm_fst_, GetLattice(dec, fp), compose_ok)
          IN  /\ ~lm_fst_ => compose_ok
              /\ IF NumStates(clat) = 0
                 THEN /\ last_result_' = TextJSON(<<>>)
                      /\ calls_' = did \o (IF clat = {} THEN <<"KALDI_WARN">> ELSE <<>>)
                      /\ UNCHANGED <<metadata_, uttConfidence>>
                 ELSE \E alloc_ok \in BOOLEAN, k \in 0..(Len(ShortestPath(clat)) + 1) :
                        /\ alloc_ok => k = 0
                        /\ calls_' = did \o (IF clat = {} THEN <<"KALDI_WARN">> ELSE <<>>)
                                         \o (IF alloc_ok THEN <<>> ELSE <<"std::bad_alloc">>)
                        /\ metadata_' = ComputeTimestamp(metadata_, clat, dec, fp,
                                             samples_round_start_, frame_offset_, alloc_ok)
                        /\ uttConfidence' = Confidence(uttConfidence, ShortestPath(clat),
                                                       alloc_ok, k)
                        /\ last_result_' = TextJSON(JoinWords(ShortestPath(clat)))

----------------------------------------------------------------------------
(* KaldiRecognizer::PartialResult, Result, FinalResult, GetMetadata *)

\* fault: one early return instead of two
PartialGate_Either(st, dec, fp) == st = "RUNNING" \/ NumFramesDecoded(dec, fp) # 0

\* PartialResult reads the best path only past both of its early returns
PartialGate(st, dec, fp) == st = "RUNNING" /\ NumFramesDecoded(dec, fp) # 0

\* what PartialResult stores and returns
PartialText(st, dec, fp) ==
    IF PartialGate(st, dec, fp)
    THEN PartialJSON(JoinWords(BestPathWords(dec, fp)))
    ELSE PartialJSON(<<>>)

\* fault: PartialResult decodes the frames that are ready after reading the path
PartialResult_Advancing ==
    /\ pc = "idle"
    /\ last_result_' = PartialText(state_, decoder_, feature_pipeline_)
    /\ decoder_' = AdvanceDecoding(decoder_, feature_pipeline_)
    /\ op' = "PartialResult"
    /\ calls_' = <<>>
    /\ UNCHANGED <<state_, online_, lm_fst_, frame_offset_, samples_processed_,
                   samples_round_start_, feature_pipeline_,
                   silence_weighting_, silence_pos, metadata_, uttConfidence,
                   pc, wdata, ret, accepted, boundaries>>
    /\ UNCHANGED outsideSession

PartialResult ==
    /\ pc = "idle"
    /\ last_result_' = PartialText(state_, decoder_, feature_pipeline_)
    /\ op' = "PartialResult"
    /\ calls_' = <<>>
    /\ UNCHANGED <<state_, online_, lm_fst_, frame_offset_, samples_processed_,
                   samples_round_start_, feature_pipeline_, decoder_,
                   silence_weighting_, silence_pos, metadata_, uttConfidence,
                   pc, wdata, ret, accepted, boundaries>>
    /\ UNCHANGED outsideSession

\* fault: the guard lets a settled session through
ResultGate_NotInitialized(st) == st # "INITIALIZED"

\* Result and FinalResult do their work in this state only
ResultGate(st) == st = "RUNNING"

\* fault: Result marks the session finalized
StateAfterResult_Finalized == "FINALIZED"

\* state_ = RECOGNIZER_ENDPOINT
StateAfterResult == "ENDPOINT"

\* state_ = RECOGNIZER_FINALIZED
StateAfterFinalResult == "FINALIZED"

\* what Result does past its guard, in order
ResultCalls == <<"FinalizeDecoding", "state_", "GetResult">>

Result ==
    /\ pc = "idle"
    /\ op' = "Result"
    /\ IF ~ResultGate(state_)
       THEN /\ last_result_' = TextJSON(<<>>)
            /\ calls_' = <<>>
            /\ UNCHANGED <<state_, decoder_, metadata_, uttConfidence>>
       ELSE LET dec == FinalizeDecoding(decoder_) IN
            /\ decoder_' = dec
            /\ state_' = StateAfterResult
            /\ GetResult(dec, feature_pipeline_, ResultCalls)
    /\ UNCHANGED <<online_, lm_fst_, frame_offset_, samples_processed_, samples_round_start_,
                   feature_pipeline_, silence_weighting_, silence_pos,
                   pc, wdata, ret, accepted, boundaries>>
    /\ UNCHANGED outsideSession

\* fault: the decoder is advanced before the pipeline is told of the end
FinalResultCalls_AdvanceFirst ==
    <<"UpdateSilenceWeights", "AdvanceDecoding", "InputFinished",
      "FinalizeDecoding", "state_", "GetResult">>

\* what FinalResult does past its guard, in order
FinalResultCalls ==
    <<"InputFinished", "UpdateSilenceWeights", "AdvanceDecoding",
      "FinalizeDecoding", "state_", "GetResult">>

FinalResult ==
    /\ pc = "idle"
    /\ op' = "FinalResult"
    /\ IF ~ResultGate(state_)
       THEN /\ last_result_' = TextJSON(<<>>)
            /\ calls_' = <<>>
            /\ UNCHANGED <<state_, decoder_, metadata_, uttConfidence, feature_pipeline_>>
       ELSE LET fp == InputFinished(feature_pipeline_)
                dec == FinalizeDecoding(AdvanceDecoding(decoder_, fp))
            IN /\ feature_pipeline_' = fp
               /\ decoder_' = dec
               /\ state_' = StateAfterFinalResult
               /\ GetResult(dec, fp, FinalResultCalls)
    /\ UNCHANGED <<online_, lm_fst_, frame_offset_, samples_processed_, samples_round_start_,
                   silence_weighting_, silence_pos,
                   pc, wdata, ret, accepted, boundaries>>
    /\ UNCHANGED outsideSession

\* fault: GetMetadata dumps metadata_ whether or not it is null
MetadataResult_AlwaysDump(meta, last) == MetadataJSON(meta)

\* what GetMetadata leaves in last_result_ and returns
MetadataResult(meta, last) == IF meta.isnull THEN last ELSE MetadataJSON(meta)

GetMetadata ==
    /\ pc = "idle"
    /\ last_result_' = MetadataResult(metadata_, last_result_)
    /\ op' = "GetMetadata"
    /\ calls_' = <<>>
    /\ UNCHANGED <<state_, online_, lm_fst_, frame_offset_, samples_processed_,
                   samples_round_start_, feature_pipeline_, decoder_,
                   silence_weighting_, silence_pos, metadata_, uttConfidence,
                   pc, wdata, ret, accepted, boundaries>>
    /\ UNCHANGED outsideSession

----------------------------------------------------------------------------
(* The session specification *)

Next ==
    \/ \E w \in Chunks : AcceptWaveform_CleanUp(w)
    \/ AcceptWaveform_Push
    \/ PartialResult
    \/ Result
    \/ FinalResult
    \/ GetMetadata

Spec == Init /\ [][Next]_vars

----------------------------------------------------------------------------
(* The streaming session, utterance by utterance: with or without a         *)
(* rescoring graph, from several start values of uttConfidence, fed speech, *)
(* short silences and chunks too short to yield a frame                     *)

\* the chunks fed: speech, a short silence, and fewer samples than one
\* feature frame takes
UttChunkSet ==
    { [word |-> 1, frames |-> 36000, dim |-> 5760000],
      [word |-> 0, frames |-> 30,    dim |-> 4800],
      [word |-> 0, frames |-> 0,     dim |-> 160] }

\* the state the constructor leaves, InitRescoring() included
InitUtt ==
    /\ state_ = "INITIALIZED"
    /\ online_ = TRUE
    /\ lm_fst_ \in BOOLEAN
    /\ frame_offset_ = 0
    /\ samples_processed_ = 0
    /\ samples_round_start_ = 0
    /\ feature_pipeline_ = NewPipeline(1)
    /\ decoder_ = NewDecoder(1)
    /\ silence_weighting_ = 1
    /\ silence_pos = <<>>
    /\ metadata_ = NullMetadata
    /\ last_result_ = EmptyString
    /\ uttConfidence \in UninitializedFloat
    /\ pc = "idle"
    /\ wdata = NoChunk
    /\ op = "new"
    /\ ret = FALSE
    /\ accepted = 0
    /\ boundaries = 0
    /\ calls_ = <<>>
    /\ model_ = "alive"
    /\ graph_ = [hclg |-> TRUE, hcl |-> FALSE, g |-> FALSE]
    /\ configured_ = Configure(FALSE)
    /\ ref_cnt_ = 2
    /\ owner_ = TRUE
    /\ recognizers = [i \in 1..MaxSessions |-> IF i = 1 THEN "INITIALIZED" ELSE "none"]
    /\ destroyed_ = 0
    /\ leaked_ = 0
    /\ feature_info_ = FeatureInfoAfterOpen(
           [use_most_recent_ivector |-> TRUE, greedy_ivector_extractor |-> FALSE],
           online_)
    /\ sessions_ = [i \in 1..MaxSessions |->
           IF i = 1 THEN [kind |-> "plain", graph |-> "HCLG"] ELSE NoSession]
    /\ spk_model_ = "none"
    /\ spk_ref_cnt_ = 0
    /\ spk_owner_ = FALSE
    /\ NoThreads
    /\ NoGrammar
    /\ NoSpkVector

NextUtt ==
    \/ \E w \in UttChunkSet : AcceptWaveform_CleanUp(w)
    \/ AcceptWaveform_Push
    \/ PartialResult
    \/ Result
    \/ FinalResult
    \/ GetMetadata

SpecUtt == InitUtt /\ [][NextUtt]_vars

----------------------------------------------------------------------------
(* Model and SpkModel: construction, Ref, Unref, and the sessions on them *)

\* Model::Ref
Ref == ref_cnt_' = ref_cnt_ + 1

\* Model::Unref
Unref ==
    /\ ref_cnt_' = ref_cnt_ - 1
    /\ IF ref_cnt_ - 1 = 0
       THEN /\ model_' = "destroyed"
            /\ destroyed_' = destroyed_ + 1
       ELSE UNCHANGED <<model_, destroyed_>>

\* SpkModel::Unref, as vosk_spk_model_free documents it; a call on a SpkModel
\* that was deleted touches freed memory, after which nothing is known of it
SpkUnref ==
    IF spk_model_ = "alive"
    THEN /\ spk_ref_cnt_' = spk_ref_cnt_ - 1
         /\ spk_model_' = IF spk_ref_cnt_ - 1 = 0 THEN "destroyed" ELSE "alive"
    ELSE /\ spk_model_' = "freed"
         /\ UNCHANGED spk_ref_cnt_

LiveSessions == { i \in 1..MaxSessions : recognizers[i] # "none" }

SpkSessions == { i \in 1..MaxSessions : sessions_[i].kind = "spk" }

\* vosk_model_new: a load that raises KALDI_ERR leaves no Model
OpenModel(f, conf) ==
    /\ model_ = "none"
    /\ configured_' = Configure(f.config)
    /\ IF LoadSucceeds(f)
       THEN /\ model_' = "alive"
            /\ graph_' = GraphsRead(f)
            /\ feature_info_' = conf
            /\ ref_cnt_' = 1
            /\ owner_' = TRUE
       ELSE /\ model_' = "failed"
            /\ UNCHANGED <<graph_, feature_info_, ref_cnt_, owner_>>
    /\ UNCHANGED <<recognizers, destroyed_, leaked_, sessions_>>
    /\ UNCHANGED spkVars
    /\ UNCHANGED outsideModel

\* vosk_model_free
CloseModel ==
    /\ model_ = "alive"
    /\ owner_
    /\ owner_' = FALSE
    /\ Unref
    /\ UNCHANGED <<graph_, configured_, recognizers, leaked_, feature_info_, sessions_>>
    /\ UNCHANGED spkVars
    /\ UNCHANGED outsideModel

\* vosk_spk_model_new
OpenSpkModel ==
    /\ spk_model_ = "none"
    /\ spk_model_' = "alive"
    /\ spk_ref_cnt_' = 1
    /\ spk_owner_' = TRUE
    /\ UNCHANGED <<model_, graph_, configured_, ref_cnt_, owner_, recognizers, destroyed_,
                   leaked_, feature_info_, sessions_>>
    /\ UNCHANGED outsideModel

\* vosk_spk_model_free
CloseSpkModel ==
    /\ spk_owner_
    /\ spk_owner_' = FALSE
    /\ SpkUnref
    /\ UNCHANGED <<model_, graph_, configured_, ref_cnt_, owner_, recognizers, destroyed_,
                   leaked_, feature_info_, sessions_>>
    /\ UNCHANGED outsideModel

\* new KaldiRecognizer(...): Ref() comes first, then the writes into
\* model_->feature_info_, and a constructor that then finds no decoding graph
\* throws without having built a session.  No constructor calls
\* spk_model_->Ref().
OpenSession(i, kind, online) ==
    /\ model_ = "alive"
    /\ owner_
    /\ recognizers[i] = "none"
    /\ kind = "spk" => spk_model_ = "alive" /\ spk_owner_
    /\ Ref
    /\ feature_info_' = FeatureInfoAfterOpen(feature_info_, online)
    /\ IF GraphMissing(kind, graph_)
       THEN /\ leaked_ < MaxFailed
            /\ leaked_' = leaked_ + 1
            /\ UNCHANGED <<recognizers, sessions_>>
       ELSE /\ recognizers' = [recognizers EXCEPT ![i] = "INITIALIZED"]
            /\ sessions_' = [sessions_ EXCEPT
                                ![i] = [kind |-> kind,
                                        graph |-> DecodeGraph(kind, graph_)]]
            /\ UNCHANGED leaked_
    /\ UNCHANGED <<model_, graph_, configured_, owner_, destroyed_>>
    /\ UNCHANGED spkVars
    /\ UNCHANGED outsideModel

\* vosk_recognizer_free: ~KaldiRecognizer ends in model_->Unref() and, with
\* a speaker model, spk_model_->Unref()
CloseSession(i) ==
    /\ recognizers[i] # "none"
    /\ recognizers' = [recognizers EXCEPT ![i] = "none"]
    /\ sessions_' = [sessions_ EXCEPT ![i] = NoSession]
    /\ Unref
    /\ IF sessions_[i].kind = "spk"
       THEN SpkUnref /\ UNCHANGED spk_owner_
       ELSE UNCHANGED spkVars
    /\ UNCHANGED <<graph_, configured_, owner_, leaked_, feature_info_>>
    /\ UNCHANGED outsideModel

\* a call on session i, seen from the Model: only the lifecycle state moves
SessionCall(i) ==
    /\ recognizers[i] # "none"
    /\ \/ recognizers' = [recognizers EXCEPT ![i] = "RUNNING"]
       \/ /\ ResultGate(recognizers[i])
          /\ recognizers' = [recognizers EXCEPT ![i] = StateAfterResult]
       \/ /\ ResultGate(recognizers[i])
          /\ recognizers' = [recognizers EXCEPT ![i] = StateAfterFinalResult]
    /\ UNCHANGED <<model_, graph_, configured_, ref_cnt_, owner_, destroyed_, leaked_,
                   feature_info_, sessions_>>
    /\ UNCHANGED spkVars
    /\ UNCHANGED outsideModel

InitRef ==
    /\ state_ = "INITIALIZED"
    /\ online_ = TRUE
    /\ lm_fst_ = FALSE
    /\ frame_offset_ = 0
    /\ samples_processed_ = 0
    /\ samples_round_start_ = 0
    /\ feature_pipeline_ = NewPipeline(1)
    /\ decoder_ = NewDecoder(1)
    /\ silence_weighting_ = 1
    /\ silence_pos = <<>>
    /\ metadata_ = NullMetadata
    /\ last_result_ = EmptyString
    /\ uttConfidence = 0
    /\ pc = "idle"
    /\ wdata = NoChunk
    /\ op = "new"
    /\ ret = FALSE
    /\ accepted = 0
    /\ boundaries = 0
    /\ calls_ = <<>>
    /\ model_ = "none"
    /\ graph_ = NoGraphs
    /\ configured_ = NotConfigured
    /\ ref_cnt_ = 0
    /\ owner_ = FALSE
    /\ recognizers = [i \in 1..MaxSessions |-> "none"]
    /\ destroyed_ = 0
    /\ leaked_ = 0
    /\ feature_info_ = [use_most_recent_ivector |-> TRUE, greedy_ivector_extractor |-> FALSE]
    /\ sessions_ = [i \in 1..MaxSessions |-> NoSession]
    /\ spk_model_ = "none"
    /\ spk_ref_cnt_ = 0
    /\ spk_owner_ = FALSE
    /\ NoThreads
    /\ NoGrammar
    /\ NoSpkVector

NextRef ==
    \/ \E f \in ModelFiles, conf \in IvectorConfigs : OpenModel(f, conf)
    \/ CloseModel
    \/ OpenSpkModel
    \/ CloseSpkModel
    \/ \E i \in 1..MaxSessions, kind \in SessionKinds, online \in BOOLEAN :
           OpenSession(i, kind, online)
    \/ \E i \in 1..MaxSessions : CloseSession(i)
    \/ \E i \in 1..MaxSessions : SessionCall(i)

SpecRef == InitRef /\ [][NextRef]_vars

----------------------------------------------------------------------------
(* Model::Ref and Model::Unref run by several threads *)

\* ref_cnt_++ and ref_cnt_-- are a read and a write of the member, and
\* Unref reads it a second time for its test.  Each thread is at one of
\*   "start"  before new KaldiRecognizer
\*   "ref"    in Ref, ref_cnt_ read
\*   "live"   holding a reference
\*   "unref"  in Unref, ref_cnt_ read
\*   "test"   in Unref, ref_cnt_ written, before if (ref_cnt_ == 0)
\*   "done"   Unref returned
\*   "freed"  it touched the Model after ~Model ran
Holders == { t \in Threads : tpc[t] \in {"live", "unref"} }

InsideRef == { t \in Threads : tpc[t] = "ref" }

\* ref_cnt_++, the read
RefLoad(t) ==
    /\ t # 0
    /\ tpc[t] = "start"
    /\ tpc[0] = "live"
    /\ tpc' = [tpc EXCEPT ![t] = "ref"]
    /\ treg' = [treg EXCEPT ![t] = ref_cnt_]
    /\ UNCHANGED <<sessVars, refVars, grmVars, xvecVars>>

\* ref_cnt_++, the write
RefStore(t) ==
    /\ tpc[t] = "ref"
    /\ tpc' = [tpc EXCEPT ![t] = "live"]
    /\ ref_cnt_' = treg[t] + 1
    /\ UNCHANGED treg
    /\ UNCHANGED <<model_, graph_, configured_, owner_, recognizers, destroyed_, leaked_,
                   feature_info_, sessions_>>
    /\ UNCHANGED spkVars
    /\ UNCHANGED <<sessVars, grmVars, xvecVars>>

\* ref_cnt_--, the read; the owner frees the Model only between the
\* constructor calls it makes or allows
UnrefLoad(t) ==
    /\ tpc[t] = "live"
    /\ t = 0 => InsideRef = {}
    /\ IF model_ = "destroyed"
       THEN /\ tpc' = [tpc EXCEPT ![t] = "freed"]
            /\ UNCHANGED treg
       ELSE /\ tpc' = [tpc EXCEPT ![t] = "unref"]
            /\ treg' = [treg EXCEPT ![t] = ref_cnt_]
    /\ UNCHANGED <<sessVars, refVars, grmVars, xvecVars>>

\* ref_cnt_--, the write
UnrefStore(t) ==
    /\ tpc[t] = "unref"
    /\ IF model_ = "destroyed"
       THEN /\ tpc' = [tpc EXCEPT ![t] = "freed"]
            /\ UNCHANGED ref_cnt_
       ELSE /\ tpc' = [tpc EXCEPT ![t] = "test"]
            /\ ref_cnt_' = treg[t] - 1
    /\ UNCHANGED treg
    /\ UNCHANGED <<model_, graph_, configured_, owner_, recognizers, destroyed_, leaked_,
                   feature_info_, sessions_>>
    /\ UNCHANGED spkVars
    /\ UNCHANGED <<sessVars, grmVars, xvecVars>>

\* if (ref_cnt_ == 0) delete this
UnrefTest(t) ==
    /\ tpc[t] = "test"
    /\ IF model_ = "destroyed"
       THEN /\ tpc' = [tpc EXCEPT ![t] = "freed"]
            /\ UNCHANGED <<model_, destroyed_>>
       ELSE /\ tpc' = [tpc EXCEPT ![t] = "done"]
            /\ IF ref_cnt_ = 0
               THEN /\ model_' = "destroyed"
                    /\ destroyed_' = destroyed_ + 1
               ELSE UNCHANGED <<model_, destroyed_>>
    /\ UNCHANGED treg
    /\ UNCHANGED <<graph_, configured_, ref_cnt_, owner_, recognizers, leaked_,
                   feature_info_, sessions_>>
    /\ UNCHANGED spkVars
    /\ UNCHANGED <<sessVars, grmVars, xvecVars>>

InitRace ==
    /\ state_ = "INITIALIZED"
    /\ online_ = TRUE
    /\ lm_fst_ = FALSE
    /\ frame_offset_ = 0
    /\ samples_processed_ = 0
    /\ samples_round_start_ = 0
    /\ feature_pipeline_ = NewPipeline(1)
    /\ decoder_ = NewDecoder(1)
    /\ silence_weighting_ = 1
    /\ silence_pos = <<>>
    /\ metadata_ = NullMetadata
    /\ last_result_ = EmptyString
    /\ uttConfidence = 0
    /\ pc = "idle"
    /\ wdata = NoChunk
    /\ op = "new"
    /\ ret = FALSE
    /\ accepted = 0
    /\ boundaries = 0
    /\ calls_ = <<>>
    /\ model_ = "alive"
    /\ graph_ = [hclg |-> TRUE, hcl |-> FALSE, g |-> FALSE]
    /\ configured_ = Configure(FALSE)
    /\ ref_cnt_ = 1
    /\ owner_ = TRUE
    /\ recognizers = [i \in 1..MaxSessions |-> "none"]
    /\ destroyed_ = 0
    /\ leaked_ = 0
    /\ feature_info_ = [use_most_recent_ivector |-> TRUE, greedy_ivector_extractor |-> FALSE]
    /\ sessions_ = [i \in 1..MaxSessions |-> NoSession]
    /\ spk_model_ = "none"
    /\ spk_ref_cnt_ = 0
    /\ spk_owner_ = FALSE
    /\ tpc = [t \in Threads |-> IF t = 0 THEN "live" ELSE "start"]
    /\ treg = [t \in Threads |-> 0]
    /\ NoGrammar
    /\ NoSpkVector

NextRace ==
    \/ \E t \in Threads : RefLoad(t)
    \/ \E t \in Threads : RefStore(t)
    \/ \E t \in Threads : UnrefLoad(t)
    \/ \E t \in Threads : UnrefStore(t)
    \/ \E t \in Threads : UnrefTest(t)

SpecRace == InitRace /\ [][NextRace]_vars

----------------------------------------------------------------------------
(* The grammar constructor: from the grammar string to g_fst_ *)

GrammarChars == {"a", "b", "e", "x", " ", "\t"}

GrammarStrings == UNION { [1..n -> GrammarChars] : n \in 0..MaxGrammarLen }

\* model_->word_syms_: the words "a" and "b", and "e" for the spelling of the
\* epsilon symbol, which words.txt lists with id 0
WordSyms == (<<"e">> :> 0) @@ (<<"a">> :> 1) @@ (<<"b">> :> 2)

\* SymbolTable::kNoSymbol
kNoSymbol == -1

\* model_->word_syms_->Find(token)
Find(token) == IF token \in DOMAIN WordSyms THEN WordSyms[token] ELSE kNoSymbol

\* fault: tabs delimit tokens too
IsDelimiter_Whitespace(c) == c \in {" ", "\t"}

\* the delimiter of getline(ss, token, ' ')
IsDelimiter(c) == c = " "

\* where getline stops: at the first delimiter, or at the end of the string
FirstDelimiter(s) ==
    IF \E i \in 1..Len(s) : IsDelimiter(s[i])
    THEN CHOOSE i \in 1..Len(s) :
             IsDelimiter(s[i]) /\ \A j \in 1..(i - 1) : ~IsDelimiter(s[j])
    ELSE Len(s) + 1

\* the tokens of while (getline(ss, token, ' ')): getline fails, and the loop
\* ends, once nothing is left to read
RECURSIVE Tokens(_)
Tokens(s) ==
    IF s = <<>> THEN <<>>
    ELSE LET k == FirstDelimiter(s)
         IN  <<SubSeq(s, 1, k - 1)>> \o Tokens(SubSeq(s, k + 1, Len(s)))

\* StdArc(ilabel, olabel, TropicalWeight::One(), nextstate)
StdArc(ilabel, olabel, nextstate) ==
    [ilabel |-> ilabel, olabel |-> olabel, nextstate |-> nextstate]

\* fault: the start state is final as well
NewGrammarFst_StartFinal ==
    [start |-> 0, final |-> {0, 1}, arcs |-> (0 :> <<>>) @@ (1 :> <<StdArc(0, 0, 0)>>)]

\* AddState, SetStart(0), AddState, SetFinal(1), AddArc(1, StdArc(0, 0, One, 0))
NewGrammarFst ==
    [start |-> 0, final |-> {1}, arcs |-> (0 :> <<>>) @@ (1 :> <<StdArc(0, 0, 0)>>)]

\* the arcs the loop adds to state 0, one per token Find knows
RECURSIVE WordArcs(_)
WordArcs(toks) ==
    IF toks = <<>> THEN <<>>
    ELSE LET id == Find(Head(toks))
         IN  (IF id = kNoSymbol THEN <<>> ELSE <<StdArc(id, id, 1)>>)
                 \o WordArcs(Tail(toks))

\* the tokens the loop reports with KALDI_WARN
Warned(toks) == SelectSeq(toks, LAMBDA t : Find(t) = kNoSymbol)

\* ArcSort(g_fst_, ILabelCompare<StdArc>()), on the arcs of one state
RECURSIVE ArcSort(_)
ArcSort(arcs) ==
    IF arcs = <<>> THEN <<>>
    ELSE LET a == Head(arcs)
             rest == ArcSort(Tail(arcs))
         IN  SelectSeq(rest, LAMBDA x : x.ilabel < a.ilabel) \o <<a>>
                 \o SelectSeq(rest, LAMBDA x : x.ilabel >= a.ilabel)

\* the arcs leaving the states S
ArcsOf(fst, S) ==
    UNION { { fst.arcs[q][k] : k \in 1..Len(fst.arcs[q]) } : q \in S }

RECURSIVE EpsClosure(_, _, _)
EpsClosure(fst, S, n) ==
    IF n = 0 THEN S
    ELSE EpsClosure(fst,
             S \cup { a.nextstate : a \in { x \in ArcsOf(fst, S) : x.olabel = 0 } },
             n - 1)

\* the states an FST can be in after the words ws, from the states S
RECURSIVE Run(_, _, _)
Run(fst, S, ws) ==
    LET C == EpsClosure(fst, S, Cardinality(DOMAIN fst.arcs))
    IN  IF ws = <<>> THEN C
        ELSE Run(fst,
                 { a.nextstate : a \in { x \in ArcsOf(fst, C) : x.olabel = Head(ws) } },
                 Tail(ws))

\* the word sequence ws labels a path from the start to a final state
Accepts(fst, ws) ==
    /\ fst # NoFst
    /\ Run(fst, {fst.start}, ws) \cap fst.final # {}

\* the grammar part of KaldiRecognizer(Model*, float, char const*, bool) on a
\* Model with hcl_fst_
CompileGrammar ==
    /\ gpc = "new"
    /\ LET toks == Tokens(grammar_)
       IN  /\ g_fst_' = [NewGrammarFst EXCEPT
                            !.arcs[0] = ArcSort(NewGrammarFst.arcs[0] \o WordArcs(toks))]
           /\ warnings_' = Warned(toks)
    /\ gpc' = "compiled"
    /\ UNCHANGED grammar_
    /\ UNCHANGED <<sessVars, refVars, raceVars, xvecVars>>

InitGrm ==
    /\ state_ = "INITIALIZED"
    /\ online_ = TRUE
    /\ lm_fst_ = FALSE
    /\ frame_offset_ = 0
    /\ samples_processed_ = 0
    /\ samples_round_start_ = 0
    /\ feature_pipeline_ = NewPipeline(1)
    /\ decoder_ = NewDecoder(1)
    /\ silence_weighting_ = 1
    /\ silence_pos = <<>>
    /\ metadata_ = NullMetadata
    /\ last_result_ = EmptyString
    /\ uttConfidence = 0
    /\ pc = "idle"
    /\ wdata = NoChunk
    /\ op = "new"
    /\ ret = FALSE
    /\ accepted = 0
    /\ boundaries = 0
    /\ calls_ = <<>>
    /\ model_ = "alive"
    /\ graph_ = [hclg |-> FALSE, hcl |-> TRUE, g |-> TRUE]
    /\ configured_ = Configure(FALSE)
    /\ ref_cnt_ = 2
    /\ owner_ = TRUE
    /\ recognizers = [i \in 1..MaxSessions |-> "none"]
    /\ destroyed_ = 0
    /\ leaked_ = 0
    /\ feature_info_ = [use_most_recent_ivector |-> TRUE, greedy_ivector_extractor |-> TRUE]
    /\ sessions_ = [i \in 1..MaxSessions |-> NoSession]
    /\ spk_model_ = "none"
    /\ spk_ref_cnt_ = 0
    /\ spk_owner_ = FALSE
    /\ NoThreads
    /\ grammar_ \in GrammarStrings
    /\ g_fst_ = NoFst
    /\ warnings_ = <<>>
    /\ gpc = "new"
    /\ NoSpkVector

NextGrm == CompileGrammar

SpecGrm == InitGrm /\ [][NextGrm]_vars

----------------------------------------------------------------------------
(* KaldiRecognizer::GetSpkVector *)

\* What GetSpkVector finds in the silence weighting helper: whether it is
\* active, whether the feature pipeline has frames ready, and the frames
\* GetNonsilenceFrames returns, here a run of decoded frames lo..hi-1.
SilenceHelpers ==
    { [active |-> a, ready |-> r, nonsilence |-> { j \in 0..(MaxSpkFrames \div 3) : lo <= j /\ j < hi }] :
          a \in BOOLEAN, r \in BOOLEAN,
          lo \in 0..(MaxSpkFrames \div 3), hi \in 0..((MaxSpkFrames \div 3) + 1) }

\* nonsilence_frames: filled only when the helper is active and the pipeline
\* has frames
NonsilenceFrames(s) == IF s.active /\ s.ready THEN s.nonsilence ELSE {}

\* num_nonsilence_frames: the speaker frames i whose i / 3 is found in
\* nonsilence_frames
NumNonsilenceFrames(num_frames, nonsilence_frames) ==
    Cardinality({ i \in 0..(num_frames - 1) : (i \div 3) \in nonsilence_frames })

\* fault: any frame is enough for a vector
EnoughData_Any(n) == n > 0

\* if (num_nonsilence_frames < MIN_SPK_FEATS) return false;
EnoughData(n) == ~(n < MIN_SPK_FEATS)

GetSpkVector ==
    /\ xvector_.ret = "none"
    /\ LET n == NumNonsilenceFrames(spk_feature_, NonsilenceFrames(silence_))
       IN  xvector_' = IF EnoughData(n) THEN [ret |-> "true", rows |-> n]
                       ELSE [ret |-> "false", rows |-> 0]
    /\ UNCHANGED <<spk_feature_, silence_>>
    /\ UNCHANGED <<sessVars, refVars, raceVars, grmVars>>

\* a speaker-model session at a call of GetSpkVector
InitSpk ==
    /\ state_ = "INITIALIZED"
    /\ online_ = TRUE
    /\ lm_fst_ = FALSE
    /\ frame_offset_ = 0
    /\ samples_processed_ = 0
    /\ samples_round_start_ = 0
    /\ feature_pipeline_ = NewPipeline(1)
    /\ decoder_ = NewDecoder(1)
    /\ silence_weighting_ = 1
    /\ silence_pos = <<>>
    /\ metadata_ = NullMetadata
    /\ last_result_ = EmptyString
    /\ uttConfidence = 0
    /\ pc = "idle"
    /\ wdata = NoChunk
    /\ op = "new"
    /\ ret = FALSE
    /\ accepted = 0
    /\ boundaries = 0
    /\ calls_ = <<>>
    /\ model_ = "alive"
    /\ graph_ = [hclg |-> FALSE, hcl |-> TRUE, g |-> TRUE]
    /\ configured_ = Configure(FALSE)
    /\ ref_cnt_ = 2
    /\ owner_ = TRUE
    /\ recognizers = [i \in 1..MaxSessions |-> "none"]
    /\ destroyed_ = 0
    /\ leaked_ = 0
    /\ feature_info_ = [use_most_recent_ivector |-> TRUE, greedy_ivector_extractor |-> TRUE]
    /\ sessions_ = [i \in 1..MaxSessions |-> NoSession]
    /\ spk_model_ = "none"
    /\ spk_ref_cnt_ = 0
    /\ spk_owner_ = FALSE
    /\ NoThreads
    /\ NoGrammar
    /\ spk_feature_ \in 0..MaxSpkFrames
    /\ silence_ \in SilenceHelpers
    /\ xvector_ = [ret |-> "none", rows |-> 0]

NextSpk == GetSpkVector

SpecSpk == InitSpk /\ [][NextSpk]_vars

----------------------------------------------------------------------------
(* Steps of the session, as the properties below name them *)

\* the step is a whole call of the named operation
Called(name) == pc = "idle" /\ pc' = "idle" /\ op' = name

\* s is a prefix of t
IsPrefix(s, t) == Len(s) <= Len(t) /\ SubSeq(t, 1, Len(s)) = s

\* the step is AcceptWaveform up to state_ = RECOGNIZER_RUNNING
EntersAccept == pc = "idle" /\ pc' = "pushing"

\* the step is the rest of AcceptWaveform, to its return
ReturnsFromAccept == pc = "pushing" /\ pc' = "idle"

\* frame_offset_ as CleanUp would advance it in the current state
FramesSinceReset == frame_offset_ + NumFramesDecoded(decoder_, feature_pipeline_)

\* the step drops the feature pipeline and the decoder and makes new ones
Recreated ==
    /\ feature_pipeline_'.id # feature_pipeline_.id
    /\ decoder_'.id # decoder_.id
    /\ feature_pipeline_'.chunks = <<>>
    /\ decoder_'.upto = 0

\* the step is the full pipeline reset of CleanUp
FullReset ==
    /\ Recreated
    /\ frame_offset_' = 0
    /\ samples_processed_' = 0
    /\ samples_round_start_' = samples_round_start_ + samples_processed_

\* the step is the cheap path of CleanUp
CheapRestart ==
    /\ frame_offset_' = FramesSinceReset
    /\ decoder_' = [decoder_ EXCEPT !.offset = FramesSinceReset, !.finalized = FALSE]
    /\ UNCHANGED <<feature_pipeline_, samples_processed_, samples_round_start_>>

----------------------------------------------------------------------------
(* C1..C10 *)

\* C1: the lifecycle state changes only by AcceptWaveform (any state to
\* RUNNING), Result (RUNNING to ENDPOINT) and FinalResult (RUNNING to
\* FINALIZED); PartialResult and GetMetadata leave it alone; INITIALIZED is
\* never entered again.
C1_LifecycleEdges ==
    [][ /\ (EntersAccept => state_' = "RUNNING")
        /\ (ReturnsFromAccept => state_' = state_)
        /\ (Called("Result") =>
               state_' = IF state_ = "RUNNING" THEN "ENDPOINT" ELSE state_)
        /\ (Called("FinalResult") =>
               state_' = IF state_ = "RUNNING" THEN "FINALIZED" ELSE state_)
        /\ (Called("PartialResult") \/ Called("GetMetadata") => state_' = state_)
        /\ (state_' # state_ =>
               \/ EntersAccept
               \/ Called("Result") /\ state_ = "RUNNING"
               \/ Called("FinalResult") /\ state_ = "RUNNING")
        /\ (state_' = "INITIALIZED" => state_ = "INITIALIZED" /\ accepted' = 0)
      ]_vars

\* a session that was finalized, fed again and finalized again
C1_Witness ==
    state_ = "FINALIZED" /\ op = "FinalResult" /\ decoder_.id = 2 /\ accepted = 2

\* C2: Result or FinalResult outside RUNNING returns {"text": ""} and changes
\* nothing but the stored result string.
C2_ResultOutsideRunning ==
    [][ (Called("Result") \/ Called("FinalResult")) /\ state_ # "RUNNING" =>
            /\ last_result_' = TextJSON(<<>>)
            /\ UNCHANGED <<state_, frame_offset_, samples_processed_,
                           samples_round_start_, decoder_, feature_pipeline_,
                           silence_weighting_, silence_pos, metadata_>>
      ]_vars

\* a second Result in a row: the decoder still holds words, the call returned none
C2_Witness ==
    /\ op = "Result"
    /\ state_ = "ENDPOINT"
    /\ BestPathWords(decoder_, feature_pipeline_) # <<>>
    /\ metadata_.words # <<>>
    /\ last_result_ = TextJSON(<<>>)

\* C3 as stated: every AcceptWaveform in ENDPOINT or FINALIZED performs the
\* full pipeline reset.
C3_SettledAlwaysResets ==
    [][ EntersAccept /\ state_ \in {"ENDPOINT", "FINALIZED"} => FullReset ]_vars

\* C3, amended: AcceptWaveform in FINALIZED, or in ENDPOINT once the frame
\* offset advanced by the decoded frames exceeds 20000, performs the full
\* reset; in ENDPOINT otherwise it advances the frame offset and restarts the
\* decoder on the same pipeline, the sample counters untouched.  Either way
\* the silence weighting helper is made anew and the state becomes RUNNING.
C3_SettledCleanUp ==
    [][ EntersAccept /\ state_ \in {"ENDPOINT", "FINALIZED"} =>
            /\ IF state_ = "FINALIZED" \/ FramesSinceReset > ResetCeiling
               THEN FullReset
               ELSE CheapRestart
            /\ silence_weighting_' # silence_weighting_
            /\ state_' = "RUNNING"
      ]_vars

\* after Result, the frame offset crossed the ceiling and the pipeline was dropped
C3_Witness ==
    /\ pc = "pushing"
    /\ op = "Result"
    /\ decoder_.id = 2
    /\ frame_offset_ = 0
    /\ samples_round_start_ > 0

\* C4: right after a pipeline reset the frame offset and the samples of the
\* round are 0 and the samples before the round are the earlier total.
C4_AfterReset ==
    [][ EntersAccept /\ decoder_'.id # decoder_.id =>
            /\ frame_offset_' = 0
            /\ samples_processed_' = 0
            /\ samples_round_start_' = samples_round_start_ + samples_processed_
      ]_vars

\* right after the second reset of a session
C4_Witness ==
    /\ pc = "pushing"
    /\ decoder_.id = 3
    /\ frame_offset_ = 0
    /\ samples_processed_ = 0
    /\ samples_round_start_ > 0

C6_PartialWhenRunningOrDecoded ==
    [][ Called("PartialResult") =>
            last_result_' =
                IF state_ = "RUNNING" \/ NumFramesDecoded(decoder_, feature_pipeline_) > 0
                THEN PartialJSON(JoinWords(BestPathWords(decoder_, feature_pipeline_)))
                ELSE PartialJSON(<<>>)
      ]_vars

\* C6, amended: PartialResult returns the blank-joined words of the decoder's
\* best path when the state is RUNNING and the decoder has decoded at least
\* one frame, and {"partial": ""} in every other case.
C6_PartialWhenRunningAndDecoded ==
    [][ Called("PartialResult") =>
            last_result_' =
                IF state_ = "RUNNING" /\ NumFramesDecoded(decoder_, feature_pipeline_) > 0
                THEN PartialJSON(JoinWords(BestPathWords(decoder_, feature_pipeline_)))
                ELSE PartialJSON(<<>>)
      ]_vars

\* a partial of two words, and so of one blank
C6_Witness ==
    /\ op = "PartialResult"
    /\ last_result_.key = "partial"
    /\ Len(last_result_.text) = 3
    /\ last_result_.text[2] = 0

\* C7: PartialResult changes nothing but the stored result string, and called
\* twice in a row it returns the same JSON.
C7_PartialIdempotent ==
    [][ Called("PartialResult") =>
            /\ UNCHANGED <<state_, online_, frame_offset_, samples_processed_,
                           samples_round_start_, feature_pipeline_, decoder_,
                           silence_weighting_, silence_pos, metadata_>>
            /\ (op = "PartialResult" => last_result_' = last_result_)
            /\ last_result_' = PartialText(state_', decoder_', feature_pipeline_')
      ]_vars

\* a partial with words, returned by a session that already holds metadata
C7_Witness ==
    /\ op = "PartialResult"
    /\ state_ = "RUNNING"
    /\ ~metadata_.isnull
    /\ last_result_.text # <<>>
    /\ last_result_ = PartialText(state_, decoder_, feature_pipeline_)

\* C8: AcceptWaveform returns true exactly when the decoder reports an
\* endpoint after the push; then it appends the ready frame count to
\* silence_pos and leaves samples_processed_; else it adds the chunk length to
\* samples_processed_ and leaves silence_pos.
C8_AcceptReturn ==
    [][ ReturnsFromAccept =>
            /\ ret' = EndpointDetected(decoder_', feature_pipeline_')
            /\ IF ret'
               THEN /\ silence_pos' =
                           Append(silence_pos, NumFramesReady(feature_pipeline_'))
                    /\ samples_processed_' = samples_processed_
               ELSE /\ silence_pos' = silence_pos
                    /\ samples_processed_' = samples_processed_ + wdata.dim
      ]_vars

\* an AcceptWaveform that returned true after one that returned false
C8_Witness ==
    /\ op = "AcceptWaveform"
    /\ pc = "idle"
    /\ ret
    /\ Len(silence_pos) = 1
    /\ samples_processed_ > 0

\* C9: AcceptWaveform returns true, and silence_pos gains an entry, once for
\* each utterance boundary the decoder detects, whatever the caller does.
C9_OncePerBoundary == Len(silence_pos) = boundaries

\* C10: while the Model lives its count is 1 for the owner, if the owner has
\* not released it, plus the number of live sessions; the Model is destroyed
\* once, when owner and sessions have all released it, and never before.
C10_RefCount ==
    /\ model_ = "alive" =>
           ref_cnt_ = (IF owner_ THEN 1 ELSE 0) + Cardinality(LiveSessions)
    /\ destroyed_ <= 1
    /\ (model_ = "destroyed" <=> destroyed_ = 1)
    /\ model_ = "destroyed" => ref_cnt_ = 0 /\ LiveSessions = {} /\ ~owner_
    /\ model_ = "alive" => owner_ \/ LiveSessions # {}

\* C11: reference counting is atomic across threads.  No increment or
\* decrement is lost (once no thread is inside Ref or Unref, ref_cnt_ is the
\* number of holders), the Model is not destroyed while a thread holds a
\* reference or is still inside the Model, and ~Model runs exactly once after
\* the last release.
C11_AtomicRefCount ==
    /\ (\A t \in Threads : tpc[t] \in {"start", "live", "done"})
           => ref_cnt_ = Cardinality(Holders)
    /\ model_ = "destroyed" => \A t \in Threads : tpc[t] \in {"start", "done"}
    /\ (\A t \in Threads : tpc[t] = "done") => destroyed_ = 1
    /\ destroyed_ <= 1

\* C12: the speaker model is reference-counted like the Model.  While it is
\* alive its count is one for the owner's handle plus one per open speaker
\* session, and it stays alive as long as the owner or a speaker session
\* holds it.
C12_SpkRefCount ==
    /\ spk_model_ = "alive"
           => spk_ref_cnt_ = (IF spk_owner_ THEN 1 ELSE 0) + Cardinality(SpkSessions)
    /\ (spk_owner_ \/ SpkSessions # {}) => spk_model_ = "alive"

\* C13: the Model is immutable after construction.  No step taken while the
\* Model is alive changes its graphs or its feature configuration.
C13_ModelImmutable ==
    [][model_ = "alive" /\ model_' = "alive"
          => feature_info_' = feature_info_ /\ graph_' = graph_]_vars

\* C14: a constructed Model has exactly one graph representation, the
\* precompiled graph or the (left-context, grammar) pair, never both and
\* never neither.
C14_OneGraphRepresentation ==
    model_ = "alive" =>
        \/ graph_.hclg /\ ~graph_.hcl /\ ~graph_.g
        \/ ~graph_.hclg /\ graph_.hcl /\ graph_.g

\* C15: a session without a grammar decodes against the precompiled graph
\* when the Model has one, else against the composition of the left-context
\* and grammar graphs when both exist; in any other case no such session
\* comes to exist, and a construction that fails creates no session.
C15_PlainGraphSelection ==
    [][/\ \A i \in 1..MaxSessions :
              (sessions_[i] = NoSession /\ sessions_'[i].kind \in {"plain", "spk"})
                  => IF graph_.hclg THEN sessions_'[i].graph = "HCLG"
                     ELSE graph_.hcl /\ graph_.g /\ sessions_'[i].graph = "HCLr o Gr"
       /\ leaked_' # leaked_ => recognizers' = recognizers /\ sessions_' = sessions_
      ]_vars

\* a session without a grammar runs on the composed graph
C15_Witness ==
    \E i \in 1..MaxSessions :
        /\ sessions_[i].kind = "plain"
        /\ sessions_[i].graph = "HCLr o Gr"
        /\ recognizers[i] = "RUNNING"

\* C16: a grammar session exists only on a Model with a left-context graph
\* and decodes against the composition with its grammar, never against the
\* precompiled graph.
C16_GrammarNeedsLeftContext ==
    \A i \in 1..MaxSessions :
        sessions_[i].kind = "grammar"
            => graph_.hcl /\ sessions_[i].graph = "HCLr o grammar"

\* a constructor has thrown on a Model that has only the precompiled graph:
\* the plain constructor does not throw there, so it was the grammar one
C16_Witness ==
    /\ model_ = "alive"
    /\ graph_.hclg
    /\ leaked_ > 0
    /\ \A i \in 1..MaxSessions : sessions_[i].kind # "grammar"

\* The fields of the string s between delimiters from D, as <<first, last>>
\* positions.  With empties, an empty field (last = first - 1) in front of a
\* delimiter counts as a field too.
Fields(s, D, empties) ==
    { f \in (1..Len(s)) \X (0..Len(s)) :
          /\ f[2] >= f[1] - 1
          /\ empties \/ f[2] >= f[1]
          /\ f[1] = 1 \/ s[f[1] - 1] \in D
          /\ f[2] = Len(s) \/ s[f[2] + 1] \in D
          /\ \A k \in f[1]..f[2] : s[k] \notin D }

\* g_fst_ and the warnings are what the fields of grammar_ call for: per word
\* id as many arcs from state 0 to state 1 as fields spell the word, no other
\* arc from state 0, and one warning per field the symbol table lacks
GrammarMatches(D, empties) ==
    LET F == Fields(grammar_, D, empties)
        id(f) == Find(SubSeq(grammar_, f[1], f[2]))
        arcs == g_fst_.arcs[0]
    IN  /\ \A t \in DOMAIN WordSyms :
               Cardinality({ k \in 1..Len(arcs) :
                                 arcs[k] = StdArc(WordSyms[t], WordSyms[t], 1) })
                   = Cardinality({ f \in F : id(f) = WordSyms[t] })
        /\ Len(arcs) = Cardinality({ f \in F : id(f) # kNoSymbol })
        /\ Len(warnings_) = Cardinality({ f \in F : id(f) = kNoSymbol })

\* the word sequences offered to the grammar graph
WordSeqs ==
    UNION { [1..n -> { WordSyms[t] : t \in DOMAIN WordSyms } \ {0}] : n \in 0..MaxWords }

\* C17 as stated: the word list is tokenized on whitespace; every token the
\* symbol table has adds one arc from the start state to the accepting
\* state, every other token adds no arc and one warning.
C17_WhitespaceTokens ==
    gpc = "compiled" => GrammarMatches({" ", "\t"}, FALSE)

\* C17: the word list is split at each single space; every field the symbol
\* table has adds one arc from the start state to the accepting state, every
\* other field, the empty field in front of a space included, adds no arc
\* and one warning.
C17_SpaceTokens ==
    gpc = "compiled" => GrammarMatches({" "}, TRUE)

\* a compiled grammar with a tab in it, a word that resolved and a warning
C17_Witness ==
    /\ gpc = "compiled"
    /\ \E i \in 1..Len(grammar_) : grammar_[i] = "\t"
    /\ g_fst_.arcs[0] # <<>>
    /\ warnings_ # <<>>

\* C18 as stated: when no token resolves the grammar graph accepts the empty
\* word sequence and no other.
C18_AcceptsOnlyEmpty ==
    (gpc = "compiled" /\ g_fst_.arcs[0] = <<>>)
        => /\ Accepts(g_fst_, <<>>)
           /\ \A ws \in WordSeqs : ws # <<>> => ~Accepts(g_fst_, ws)

\* C18: when no token resolves the constructor still builds the grammar
\* graph, with its start state and its final state, and the graph accepts no
\* word sequence, the empty one included.
C18_AcceptsNothing ==
    (gpc = "compiled" /\ g_fst_.arcs[0] = <<>>)
        => /\ g_fst_.start = 0
           /\ g_fst_.final = {1}
           /\ \A ws \in WordSeqs : ~Accepts(g_fst_, ws)

\* a grammar of unknown words only has been compiled
C18_Witness ==
    /\ gpc = "compiled"
    /\ g_fst_.arcs[0] = <<>>
    /\ Len(warnings_) = 2

\* C19: in batch mode AcceptWaveform leaves the decoder where it was, and a
\* Result() or FinalResult() called in RUNNING decodes every buffered chunk
\* and returns the words decoded.
C19_BatchDecodesAtResult ==
    [][/\ (ReturnsFromAccept /\ ~online_) => decoder_' = decoder_
       /\ ((Called("Result") \/ Called("FinalResult")) /\ ~online_ /\ state_ = "RUNNING")
              => /\ decoder_'.upto = Len(feature_pipeline_'.chunks)
                 /\ last_result_' = TextJSON(JoinWords(
                        BestPathWords(decoder_', feature_pipeline_')))
      ]_vars

\* C20: FinalResult() called in RUNNING signals the end of input, updates the
\* silence weights once, advances the decoder once, finalizes it, sets the
\* state to FINALIZED and produces the transcript, in this order; on return
\* the decoder has consumed every frame the pipeline has ready and the
\* transcript is that of the words decoded, in streaming and in batch mode.
C20_FinalResultOrder ==
    [][(Called("FinalResult") /\ state_ = "RUNNING")
          => /\ IsPrefix(<<"InputFinished", "UpdateSilenceWeights", "AdvanceDecoding",
                          "FinalizeDecoding", "state_", "GetResult">>, calls_')
             /\ feature_pipeline_'.input_finished
             /\ feature_pipeline_'.chunks = feature_pipeline_.chunks
             /\ decoder_'.upto = Len(feature_pipeline_'.chunks)
             /\ FramesUpTo(feature_pipeline_', decoder_'.upto)
                    = NumFramesReady(feature_pipeline_') \div SubsamplingFactor
             /\ decoder_'.finalized
             /\ state_' = "FINALIZED"
             /\ last_result_' = TextJSON(JoinWords(
                    BestPathWords(decoder_', feature_pipeline_')))
      ]_vars

\* FinalResult has returned in batch mode with frames that no earlier call
\* had decoded
C20_Witness ==
    /\ op = "FinalResult"
    /\ state_ = "FINALIZED"
    /\ ~online_
    /\ calls_ # <<>>
    /\ NumFramesDecoded(decoder_, feature_pipeline_) > 0
    /\ last_result_.text # <<>>

----------------------------------------------------------------------------
(* C21..C30 *)

\* C21: Result() or FinalResult() in RUNNING on a decoder that has decoded no
\* frame returns {"text": ""}, still moves the session to ENDPOINT or to
\* FINALIZED, and leaves metadata_ and uttConfidence as they were.
C21_NothingDecodedResult ==
    [][((Called("Result") \/ Called("FinalResult"))
        /\ state_ = "RUNNING"
        /\ NumFramesDecoded(decoder_', feature_pipeline_') = 0)
       => /\ last_result_' = TextJSON(<<>>)
          /\ state_' = (IF op' = "Result" THEN "ENDPOINT" ELSE "FINALIZED")
          /\ metadata_' = metadata_
          /\ uttConfidence' = uttConfidence]_vars

\* FinalResult ran past its guard on a decoder with nothing decoded, in a
\* session that holds the words of an earlier utterance
C21_Witness ==
    /\ op = "FinalResult"
    /\ calls_ = FinalResultCalls
    /\ state_ = "FINALIZED"
    /\ NumFramesDecoded(decoder_, feature_pipeline_) = 0
    /\ metadata_.words # <<>>
    /\ last_result_ = TextJSON(<<>>)

\* C22: with no rescoring graph, the text GetResult returns is the words of the
\* shortest path of the decoder's own lattice, joined by blanks.
C22_FirstPassText ==
    [][((Called("Result") \/ Called("FinalResult"))
        /\ state_ = "RUNNING"
        /\ ~lm_fst_
        /\ NumFramesDecoded(decoder_', feature_pipeline_') > 0)
       => last_result_' =
            TextJSON(JoinWords(ShortestPath(GetLattice(decoder_', feature_pipeline_'))))]_vars

\* Result returned a transcript with words in a session without rescoring graph
C22_Witness ==
    /\ op = "Result"
    /\ calls_ = ResultCalls
    /\ ~lm_fst_
    /\ NumFramesDecoded(decoder_, feature_pipeline_) > 0
    /\ last_result_ = TextJSON(JoinWords(BestPathWords(decoder_, feature_pipeline_)))
    /\ BestPathWords(decoder_, feature_pipeline_) # <<>>

\* the last Result or FinalResult found the lattice empty
EmptyLattice == calls_ # <<>> /\ calls_[Len(calls_)] = "KALDI_WARN"

\* C23: when the lattice is empty after the rescoring step, GetResult returns
\* {"text": ""} and runs no metadata extraction, and the session stays usable:
\* the next AcceptWaveform returns it to RUNNING.
C23_EmptyLattice ==
    [][/\ ((Called("Result") \/ Called("FinalResult")) /\ EmptyLattice')
          => /\ last_result_' = TextJSON(<<>>)
             /\ metadata_' = metadata_
             /\ uttConfidence' = uttConfidence
       /\ (EmptyLattice /\ EntersAccept) => state_' = "RUNNING"]_vars

\* Result found the lattice empty in a session that holds the words of an
\* earlier utterance
C23_Witness ==
    /\ op = "Result"
    /\ EmptyLattice
    /\ state_ = "ENDPOINT"
    /\ NumFramesDecoded(decoder_, feature_pipeline_) > 0
    /\ metadata_.words # <<>>
    /\ last_result_ = TextJSON(<<>>)

\* the last Result or FinalResult caught a std::bad_alloc in ComputeTimestamp
ExtractionFailed == calls_ # <<>> /\ calls_[Len(calls_)] = "std::bad_alloc"

C25_ReturnsTextResult ==
    [][(Called("GetMetadata") /\ metadata_.isnull)
       => last_result_'.key \in {"text", ""}]_vars

\* C25, amended: GetMetadata returns the dump of metadata_ when it is not null;
\* when it is null it returns the string stored last, which is the
\* {"partial": ...} of a PartialResult() called since the last Result() or
\* FinalResult().
C25_ReturnsLastStored ==
    [][/\ Called("GetMetadata")
          => last_result_' = (IF metadata_.isnull THEN last_result_
                              ELSE MetadataJSON(metadata_))
       /\ Called("PartialResult") => last_result_'.key = "partial"]_vars

\* GetMetadata returned a partial result: metadata_ is null after a Result on
\* decoded audio, and PartialResult was called after that Result
C25_Witness ==
    /\ op = "GetMetadata"
    /\ metadata_.isnull
    /\ last_result_.key = "partial"
    /\ state_ = "ENDPOINT"
    /\ NumFramesDecoded(decoder_, feature_pipeline_) > 0

RECURSIVE SamplesOf(_)
\* the samples of the chunks cs
SamplesOf(cs) == IF cs = <<>> THEN 0 ELSE Head(cs).dim + SamplesOf(Tail(cs))

\* C26: between calls, samples_processed_ is the number of samples accepted in
\* the current round, the chunks pushed into the current feature pipeline, so
\* that samples_round_start_ + samples_processed_ is the number of samples
\* accepted since the session was opened.
C26_SamplesAccounted ==
    pc = "idle" => samples_processed_ = SamplesOf(feature_pipeline_.chunks)

\* C27: frame_offset_ and samples_processed_ decrease only in a step that
\* re-creates the pipeline, such a step sets both to zero, no step sets one of
\* them to zero without the other being zero after it, and
\* samples_round_start_ never decreases.
C27_CountersResetTogether ==
    [][/\ samples_round_start_' >= samples_round_start_
       /\ (frame_offset_' < frame_offset_ \/ samples_processed_' < samples_processed_)
              => Recreated
       /\ Recreated => frame_offset_' = 0 /\ samples_processed_' = 0
       /\ ((frame_offset_ # 0 /\ frame_offset_' = 0)
             \/ (samples_processed_ # 0 /\ samples_processed_' = 0))
              => frame_offset_' = 0 /\ samples_processed_' = 0]_vars

\* AcceptWaveform has just reset the pipeline for the second time
C27_Witness ==
    /\ pc = "pushing"
    /\ calls_ = <<"CleanUp">>
    /\ feature_pipeline_.id = 3
    /\ frame_offset_ = 0
    /\ samples_processed_ = 0
    /\ samples_round_start_ > 0

\* the step is a Result or FinalResult past its guard
ProducesResult == (Called("Result") \/ Called("FinalResult")) /\ state_ = "RUNNING"

C30_OneConfigFileRead ==
    [][(model_ = "none" /\ model_' # "none")
       => /\ Len(configured_'.read) = 1
          /\ configured_'.read[1] = (IF configured_'.stat_ok THEN "config_file_path"
                                     ELSE "acmodel_path/conf/online.conf")]_vars

\* a Model was loaded from a directory with a file at config_file_path
C30_Witness ==
    /\ model_ = "alive"
    /\ configured_.stat_ok
    /\ configured_.read = <<"config_file_path">>

\* the speaker frames GetSpkVector counts: frame i when i / 3 is a frame the
\* silence weighting helper returned
CountedFrames ==
    { i \in 0..(spk_feature_ - 1) :
        \E j \in (IF silence_.active /\ silence_.ready THEN silence_.nonsilence ELSE {}) :
            3 * j <= i /\ i < 3 * j + 3 }

\* C29: GetSpkVector returns false when fewer than 30 speaker frames count as
\* non-silence, and computes a vector on the counted frames and returns true
\* when 30 or more do; frame i counts exactly when i / 3 is in the set of
\* non-silence frames the silence weighting helper returned.
C29_SpkVectorThreshold ==
    xvector_.ret # "none"
    => /\ xvector_.ret = "false" <=> Cardinality(CountedFrames) < 30
       /\ xvector_.ret = "true" <=> Cardinality(CountedFrames) >= 30
       /\ xvector_.ret = "true" => xvector_.rows = Cardinality(CountedFrames)

\* GetSpkVector computed a vector on 30 frames out of more
C29_Witness ==
    /\ xvector_.ret = "true"
    /\ xvector_.rows = 30
    /\ spk_feature_ > 30

----------------------------------------------------------------------------
(* C31..C38 *)

\* the step calls decoder_->InitDecoding
CallsInitDecoding == \E i \in 1..Len(calls_') : calls_'[i] = "InitDecoding"

\* C31 as stated: an AcceptWaveform called in RUNNING, the frame ceiling not
\* exceeded, re-initializes the decoder at the current frame offset and keeps
\* it.
C31_RunningReinitializes ==
    [][ (EntersAccept /\ state_ = "RUNNING" /\ FramesSinceReset <= ResetCeiling)
            => CallsInitDecoding /\ decoder_'.id = decoder_.id ]_vars

\* C31, amended: AcceptWaveform re-initializes the decoder exactly when it is
\* called in ENDPOINT and the frame offset advanced by the decoded frames is at
\* most 20000: the decoder is kept and restarted at the advanced offset, with
\* no frame decoded, on the same pipeline.  Called in RUNNING or INITIALIZED it
\* runs no CleanUp and leaves the decoder, the pipeline and the frame offset
\* as they are until the push.
C31_CheapRestartAfterResult ==
    [][ EntersAccept =>
          /\ CallsInitDecoding <=>
                 (state_ = "ENDPOINT" /\ FramesSinceReset <= ResetCeiling)
          /\ CallsInitDecoding =>
                 /\ CheapRestart
                 /\ decoder_'.id = decoder_.id
                 /\ decoder_' = InitDecoding(decoder_, frame_offset_')
                 /\ NumFramesDecoded(decoder_', feature_pipeline_') = 0
          /\ state_ \in {"RUNNING", "INITIALIZED"} =>
                 /\ calls_' = <<>>
                 /\ UNCHANGED <<decoder_, feature_pipeline_, frame_offset_,
                                silence_weighting_>>
      ]_vars

\* AcceptWaveform has restarted the decoder of the first pipeline behind the
\* frames of an utterance that Result closed
C31_Witness ==
    /\ pc = "pushing"
    /\ calls_ = <<"CleanUp", "InitDecoding">>
    /\ decoder_.id = 1
    /\ frame_offset_ > 0
    /\ decoder_.offset = frame_offset_

\* the step is a Result or FinalResult whose metadata extraction ran to its end
Extracted ==
    /\ ProducesResult
    /\ NumFramesDecoded(decoder_', feature_pipeline_') > 0
    /\ ~EmptyLattice'
    /\ ~ExtractionFailed'

\* the one-best words of the utterance the step closes
UttWords ==
    ShortestPath(Rescored(lm_fst_, GetLattice(decoder_', feature_pipeline_'), TRUE))

\* C32: after the final transcript of an utterance with words, uttConfidence
\* is the sum of the confidences of the utterance's words other than "<unk>",
\* divided by the number of its words, whatever the session did before.
C32_UttConfidenceIsMean ==
    [][ (Extracted /\ UttWords # <<>>)
            => uttConfidence' =
                   FloatDiv(Float(SumConf(UttWords, Len(UttWords))), Len(UttWords)) ]_vars

\* texts joined by single blanks: an utterance without words adds nothing
JoinTexts(old, new) ==
    IF new = <<>> THEN old
    ELSE IF old = <<>> THEN new
    ELSE old \o <<0>> \o new

\* the metadata entries of the utterance the step closes
UttEntries ==
    ComputeTimestamp(NullMetadata,
                     Rescored(lm_fst_, GetLattice(decoder_', feature_pipeline_'), TRUE),
                     decoder_', feature_pipeline_',
                     samples_round_start_, frame_offset_, TRUE).words

\* C33: each utterance whose extraction succeeds appends its word entries to
\* metadata_["words"], in order, and its text to metadata_["text"], the texts
\* joined by single blanks; AcceptWaveform, the pipeline reset it may perform
\* and PartialResult leave metadata_ as it is.
C33_MetadataAccumulates ==
    [][ /\ Extracted =>
              /\ metadata_'.words = metadata_.words \o UttEntries
              /\ metadata_'.text = JoinTexts(metadata_.text, JoinWords(UttWords))
        /\ (EntersAccept \/ ReturnsFromAccept \/ Called("PartialResult"))
              => metadata_' = metadata_
      ]_vars

\* C34: a session construction that throws for want of a decoding graph
\* leaves ref_cnt_ at the value it had before the attempt, so that the Model
\* is destroyed once its owner and its live sessions have released it.
C34_FailedConstructionKeepsCount ==
    [][ /\ leaked_' # leaked_ => ref_cnt_' = ref_cnt_
        /\ (model_ = "alive" /\ ~owner_' /\ LiveSessions' = {}) => model_' = "destroyed"
      ]_vars

\* C35: frame_offset_ is never above 20000; it changes only in the CleanUp of
\* an AcceptWaveform, and a CleanUp that would raise it above 20000 leaves it
\* at 0.
C35_FrameOffsetBounded ==
    /\ frame_offset_ <= ResetCeiling
    /\ [][ /\ frame_offset_' <= ResetCeiling
           /\ frame_offset_' # frame_offset_
                 => EntersAccept /\ IsPrefix(<<"CleanUp">>, calls_')
           /\ (EntersAccept /\ IsPrefix(<<"CleanUp">>, calls_')
                 /\ FramesSinceReset > ResetCeiling)
                 => frame_offset_' = 0
         ]_vars

\* the CleanUp after a Result found the frame offset past the ceiling, in a
\* session that never was finalized, and left it at 0
C35_Witness ==
    /\ pc = "pushing"
    /\ calls_ = <<"CleanUp">>
    /\ op = "Result"
    /\ frame_offset_ = 0
    /\ feature_pipeline_.id = 2
    /\ accepted = 3

\* C36: frame_offset_ is 0 after a pipeline reset, and from then on every
\* AcceptWaveform that follows a Result() adds the decoder's count of frames
\* of the utterance that Result() closed, which is 0 when the Result() found
\* nothing decoded; no other step changes it.  It is thus the sum of these
\* counts over the closed utterances of the round.
C36_FrameOffsetIsSum ==
    [][ /\ EntersAccept =>
              frame_offset_' =
                  IF Recreated THEN 0
                  ELSE IF state_ = "ENDPOINT"
                       THEN frame_offset_ + NumFramesDecoded(decoder_, feature_pipeline_)
                       ELSE frame_offset_
        /\ ~EntersAccept => frame_offset_' = frame_offset_
        /\ (EntersAccept /\ state_ = "ENDPOINT"
              /\ NumFramesDecoded(decoder_, feature_pipeline_) = 0)
              => frame_offset_' = frame_offset_ /\ ~Recreated
      ]_vars

\* a round of three utterances: the first decoded frames, the second, closed
\* by a Result() that found no frame decoded, added 0, and the third is being
\* fed
C36_Witness ==
    /\ pc = "pushing"
    /\ calls_ = <<"CleanUp", "InitDecoding">>
    /\ op = "Result"
    /\ last_result_ = TextJSON(<<>>)
    /\ Len(feature_pipeline_.chunks) = 2
    /\ feature_pipeline_.chunks[2].frames = 0
    /\ frame_offset_ = FramesUpTo(feature_pipeline_, 1)
    /\ frame_offset_ > 0

\* C37: a metadata extraction on an utterance whose one-best word sequence is
\* empty divides uttConfidence by no zero: it leaves a number in it.
C37_NoDivisionByZero ==
    [][ (Extracted /\ UttWords = <<>> /\ uttConfidence.kind = "finite")
            => uttConfidence'.kind = "finite" ]_vars

\* the word ids the fields of grammar_ resolve to
ResolvedWords ==
    { Find(SubSeq(grammar_, f[1], f[2])) : f \in Fields(grammar_, {" "}, TRUE) }
        \ {kNoSymbol}

\* C38: the grammar graph of a word list with a resolved token has two
\* states, the start state 0, which is not final, and the final state 1; from
\* 0 to 1 one arc for each occurrence of a resolved token and no other arc,
\* from 1 to 0 one epsilon arc; it accepts the non-empty sequences of resolved
\* words and nothing else.
C38_TwoStateLoop ==
    (gpc = "compiled" /\ ResolvedWords # {}) =>
        /\ DOMAIN g_fst_.arcs = {0, 1}
        /\ g_fst_.start = 0
        /\ g_fst_.final = {1}
        /\ GrammarMatches({" "}, TRUE)
        /\ \A k \in 1..Len(g_fst_.arcs[0]) :
               /\ g_fst_.arcs[0][k].nextstate = 1
               /\ g_fst_.arcs[0][k].ilabel \in ResolvedWords
               /\ g_fst_.arcs[0][k].olabel = g_fst_.arcs[0][k].ilabel
        /\ g_fst_.arcs[1] = <<StdArc(0, 0, 0)>>
        /\ \A ws \in WordSeqs :
               Accepts(g_fst_, ws) <=>
                   (ws # <<>> /\ \A i \in 1..Len(ws) : ws[i] \in ResolvedWords)

============================================================================
